---------------------------- MODULE Spec2Model ----------------------------
(***************************************************************************)
(* A model of fair.js (Disemerge/fairjs): the provably-fair derivation     *)
(* pipeline  combine -> sha512 -> hexToBytes -> generateInteger /          *)
(* generateFloats / generateBool / selectRandomObject.                     *)
(*                                                                         *)
(* Strings are sequences of one-character strings.  JavaScript numbers are *)
(* IEEE-754 binary64 values, modelled exactly: a finite number is          *)
(* (-1)^neg * m / 2^e with m a natural of arbitrary size, and every        *)
(* arithmetic result is rounded to 53 significant bits, ties to even, as   *)
(* the hardware does.                                                      *)
(***************************************************************************)
EXTENDS Integers, Sequences, FiniteSets, TLC

(***************************************************************************)
(* Naturals of arbitrary size: sequences of limbs in a given base, most    *)
(* significant limb first, without leading zeros (zero is the empty        *)
(* sequence).  Binary naturals use Base, decimal fractions DecBase.        *)
(***************************************************************************)
\* Body of the value of v.  v is evaluated once, whatever the number of places
\* Body uses it in (a LET definition is evaluated again at each use).
Let(v, Body(_)) == CHOOSE r \in {Body(x) : x \in {v}} : TRUE

Base == 2^15
LimbBits == 15
DecBase == 10^4
DecLimbDigits == 4

Zeros(n) == [i \in 1..n |-> 0]

Max(x, y) == IF x >= y THEN x ELSE y
Min(x, y) == IF x <= y THEN x ELSE y

LTrim(a) ==
    IF \A i \in 1..Len(a) : a[i] = 0 THEN <<>>
    ELSE LET f == CHOOSE i \in 1..Len(a) : a[i] # 0 /\ \A j \in 1..(i-1) : a[j] = 0
         IN  SubSeq(a, f, Len(a))

LPad(a, n) == Zeros(n - Len(a)) \o a

\* limbs i..Len(a) of a + b (equal lengths) and the carry out of them
RECURSIVE AddFrom(_, _, _, _)
AddFrom(a, b, i, base) ==
    IF i > Len(a) THEN [c |-> 0, s |-> <<>>]
    ELSE Let(AddFrom(a, b, i + 1, base), LAMBDA t :
             LET v == a[i] + b[i] + t.c
             IN  [c |-> v \div base, s |-> <<v % base>> \o t.s])

\* limbs i..Len(a) of a - b (equal lengths) and the borrow out of them
RECURSIVE SubFrom(_, _, _, _)
SubFrom(a, b, i, base) ==
    IF i > Len(a) THEN [c |-> 0, s |-> <<>>]
    ELSE Let(SubFrom(a, b, i + 1, base), LAMBDA t :
             LET v == a[i] - b[i] - t.c
             IN  [c |-> IF v < 0 THEN 1 ELSE 0, s |-> <<IF v < 0 THEN v + base ELSE v>> \o t.s])

\* limbs i..Len(a) of a * k + add (k, add < base) and the carry out of them
RECURSIVE MulFrom(_, _, _, _, _)
MulFrom(a, k, add, i, base) ==
    IF i > Len(a) THEN [c |-> add, s |-> <<>>]
    ELSE Let(MulFrom(a, k, add, i + 1, base), LAMBDA t :
             LET v == a[i] * k + t.c
             IN  [c |-> v \div base, s |-> <<v % base>> \o t.s])

LAdd(a, b) ==
    LET n == Max(Len(a), Len(b))
    IN  Let(AddFrom(LPad(a, n), LPad(b, n), 1, Base), LAMBDA t : LTrim(<<t.c>> \o t.s))

\* a - b for a >= b
LSub(a, b) == LTrim(SubFrom(a, LPad(b, Len(a)), 1, Base).s)

\* a * k + add for k, add < Base
LMulAdd(a, k, add) == Let(MulFrom(a, k, add, 1, Base), LAMBDA t : LTrim(<<t.c>> \o t.s))

\* a * b, one limb of b at a time
RECURSIVE LMulUpTo(_, _, _)
LMulUpTo(a, b, n) ==
    IF n = 0 THEN <<>>
    ELSE Let(LMulUpTo(a, b, n - 1), LAMBDA p :
             LAdd(IF p = <<>> THEN <<>> ELSE p \o <<0>>, LMulAdd(a, b[n], 0)))

LMul(a, b) == LMulUpTo(a, b, Len(b))

\* -1, 0 or 1 as a < b, a = b, a > b
LCmp(a, b) ==
    IF Len(a) # Len(b) THEN (IF Len(a) < Len(b) THEN -1 ELSE 1)
    ELSE IF a = b THEN 0
    ELSE LET f == CHOOSE i \in 1..Len(a) : a[i] # b[i] /\ \A j \in 1..(i-1) : a[j] = b[j]
         IN  IF a[f] < b[f] THEN -1 ELSE 1

\* the number of bits of a limb
BitLen(x) == IF x = 0 THEN 0 ELSE CHOOSE k \in 1..LimbBits : 2^(k-1) <= x /\ x < 2^k

\* the number of trailing zero bits of a non-zero limb
LowZeros(x) == CHOOSE k \in 0..(LimbBits - 1) : x % 2^k = 0 /\ x % 2^(k+1) # 0

LBitLen(a) == IF a = <<>> THEN 0 ELSE LimbBits * (Len(a) - 1) + BitLen(a[1])

LTrailingZeros(a) ==
    IF a = <<>> THEN 0
    ELSE LET l == CHOOSE i \in 1..Len(a) : a[i] # 0 /\ \A j \in (i+1)..Len(a) : a[j] = 0
         IN  LimbBits * (Len(a) - l) + LowZeros(a[l])

\* a * 2^s
LShl(a, s) ==
    IF a = <<>> THEN <<>>
    ELSE LMulAdd(a, 2^(s % LimbBits), 0) \o Zeros(s \div LimbBits)

\* floor(a / 2^s)
LShr(a, s) ==
    LET q == s \div LimbBits
        r == s % LimbBits
        n == Len(a) - q
    IN  IF n <= 0 THEN <<>>
        ELSE LTrim([i \in 1..n |->
                      a[i] \div 2^r + (IF i > 1 THEN (a[i-1] % 2^r) * 2^(LimbBits - r) ELSE 0)])

\* a mod 2^s
LLow(a, s) ==
    LET q == s \div LimbBits
        r == s % LimbBits
        n == Len(a)
    IN  IF n <= q THEN a
        ELSE LTrim(<<a[n - q] % 2^r>> \o SubSeq(a, n - q + 1, n))

\* bit i of a, bit 0 the least significant
LBit(a, i) ==
    LET q == i \div LimbBits
    IN  IF q >= Len(a) THEN 0 ELSE (a[Len(a) - q] \div 2^(i % LimbBits)) % 2

LFromNat(n) == LTrim(<<n \div (Base * Base), (n \div Base) % Base, n % Base>>)

\* the value of a natural below 2^30
LToNat(a) == LET p == LPad(a, 2) IN p[1] * Base + p[2]

\* One step of binary long division: the remainder r (below b) is doubled and
\* reduced, and the quotient takes the bit.
DivStep(st, b) ==
    Let(LShl(st.r, 1), LAMBDA r2 :
        IF LCmp(r2, b) >= 0 THEN [q |-> LMulAdd(st.q, 2, 1), r |-> LSub(r2, b)]
        ELSE [q |-> LMulAdd(st.q, 2, 0), r |-> r2])

DivStep4(st, b) == DivStep(DivStep(DivStep(DivStep(st, b), b), b), b)

\* n steps, eight at a time while there are eight to take
RECURSIVE DivSteps(_, _, _)
DivSteps(st, b, n) ==
    IF n = 0 THEN st
    ELSE IF n >= 8 THEN Let(DivStep4(DivStep4(st, b), b), LAMBDA s8 : DivSteps(s8, b, n - 8))
    ELSE Let(DivStep(st, b), LAMBDA s1 : DivSteps(s1, b, n - 1))

\* floor(a * 2^n / b) and whether the division left a remainder, for 0 < a < b
FracDiv(a, b, n) == DivSteps([q |-> <<>>, r |-> a], b, n)

\* a mod b for b # 0: subtract b * 2^s where it fits, for s from the top down
ModReduce(a, bs) == IF LCmp(a, bs) >= 0 THEN LSub(a, bs) ELSE a

ModStep(a, b, s) == IF s < 0 THEN a ELSE ModReduce(a, LShl(b, s))

ModStep4(a, b, s) == ModStep(ModStep(ModStep(ModStep(a, b, s), b, s - 1), b, s - 2), b, s - 3)

\* the steps s, s - 1, ..., 0, eight at a time
RECURSIVE ModSteps(_, _, _)
ModSteps(a, b, s) ==
    IF s < 0 THEN a
    ELSE Let(ModStep4(ModStep4(a, b, s), b, s - 4), LAMBDA a8 : ModSteps(a8, b, s - 8))

LMod(a, b) == IF LCmp(a, b) < 0 THEN a ELSE ModSteps(a, b, LBitLen(a) - LBitLen(b))

(***************************************************************************)
(* binary64 values.  k is "fin", "inf" or "nan"; a finite value is         *)
(* (-1)^neg * m / 2^e, kept in lowest terms so that equal numbers are      *)
(* equal records (the two zeros are not told apart: nothing here reads the *)
(* sign of a zero).                                                        *)
(***************************************************************************)
MantissaBits == 53

NaN == [k |-> "nan", neg |-> FALSE, m |-> <<>>, e |-> 0]
Infinity(neg) == [k |-> "inf", neg |-> neg, m |-> <<>>, e |-> 0]

Fin(neg, m, e) ==
    IF m = <<>> THEN [k |-> "fin", neg |-> FALSE, m |-> <<>>, e |-> 0]
    ELSE LET s == Min(LTrailingZeros(m), e)
         IN  [k |-> "fin", neg |-> neg, m |-> LShr(m, s), e |-> e - s]

\* m / 2^e (plus, when sticky, a residue below one unit of m's last bit) rounded
\* to 53 significant bits, ties to even.  A sticky m has more than 53 bits.
Round53(neg, m, e, sticky) ==
    LET sh == LBitLen(m) - MantissaBits
    IN  IF sh <= 0 THEN Fin(neg, m, e)
        ELSE Let(LShr(m, sh), LAMBDA keep :
             LET rest == sticky \/ LLow(m, sh - 1) # <<>>
                 up   == LBit(m, sh - 1) = 1 /\ (rest \/ LBit(keep, 0) = 1)
             IN  Let(IF up THEN LAdd(keep, <<1>>) ELSE keep, LAMBDA r :
                     IF e >= sh THEN Fin(neg, r, e - sh) ELSE Fin(neg, LShl(r, sh - e), 0)))

FromInt(n) == Fin(n < 0, LFromNat(IF n < 0 THEN 0 - n ELSE n), 0)

IsZero(x) == x.k = "fin" /\ x.m = <<>>

\* the magnitudes of two finite values over a common denominator 2^e
Aligned(x, y) ==
    LET E == Max(x.e, y.e)
    IN  [a |-> LShl(x.m, E - x.e), b |-> LShl(y.m, E - y.e), e |-> E]

\* x + y
DAdd(x, y) ==
    IF x.k = "nan" \/ y.k = "nan" THEN NaN
    ELSE IF x.k = "inf" /\ y.k = "inf" THEN (IF x.neg = y.neg THEN x ELSE NaN)
    ELSE IF x.k = "inf" THEN x
    ELSE IF y.k = "inf" THEN y
    ELSE Let(Aligned(x, y), LAMBDA al :
             IF x.neg = y.neg THEN Round53(x.neg, LAdd(al.a, al.b), al.e, FALSE)
             ELSE IF LCmp(al.a, al.b) >= 0
                  THEN Round53(x.neg, LSub(al.a, al.b), al.e, FALSE)
                  ELSE Round53(y.neg, LSub(al.b, al.a), al.e, FALSE))

DNeg(x) == IF x.k = "nan" \/ IsZero(x) THEN x ELSE [x EXCEPT !.neg = ~x.neg]

\* x - y
DSub(x, y) == DAdd(x, DNeg(y))

\* x / y.  The operands are scaled to naturals a and b of equal bit length, so
\* that a / b lies in (1/2, 2); 55 quotient bits after the binary point and the
\* remainder decide the rounding.
DDiv(x, y) ==
    IF x.k = "nan" \/ y.k = "nan" THEN NaN
    ELSE IF x.k = "inf" THEN (IF y.k = "inf" THEN NaN ELSE Infinity(x.neg # y.neg))
    ELSE IF y.k = "inf" THEN FromInt(0)
    ELSE IF IsZero(y) THEN (IF IsZero(x) THEN NaN ELSE Infinity(x.neg))
    ELSE IF IsZero(x) THEN x
    ELSE LET la == LBitLen(x.m)
             lb == LBitLen(y.m)
             \* x / y = (a / b) * 2^(la - lb) * 2^(y.e - x.e), and q = floor(a/b * 2^55)
             d  == (MantissaBits + 2) + (lb - la) + (x.e - y.e)
         IN  Let(LShl(x.m, Max(0, lb - la)), LAMBDA a :
             Let(LShl(y.m, Max(0, la - lb)), LAMBDA b :
             Let(IF LCmp(a, b) >= 0 THEN 1 ELSE 0, LAMBDA q0 :
             Let(FracDiv(IF q0 = 1 THEN LSub(a, b) ELSE a, b, MantissaBits + 2), LAMBDA st :
             Let(LAdd(LShl(LFromNat(q0), MantissaBits + 2), st.q), LAMBDA q :
                 IF d >= 0 THEN Round53(x.neg # y.neg, q, d, st.r # <<>>)
                 ELSE Round53(x.neg # y.neg, LShl(q, 0 - d), 0, st.r # <<>>))))))

\* x % y: the remainder has the sign of the dividend and is exact
DRem(x, y) ==
    IF x.k # "fin" \/ y.k = "nan" \/ IsZero(y) THEN NaN
    ELSE IF y.k = "inf" THEN x
    ELSE Let(Aligned(x, y), LAMBDA al : Fin(x.neg, LMod(al.a, al.b), al.e))

\* x < y
DLess(x, y) ==
    IF x.k = "nan" \/ y.k = "nan" THEN FALSE
    ELSE IF x.k = "inf" THEN (x.neg /\ ~(y.k = "inf" /\ y.neg))
    ELSE IF y.k = "inf" THEN ~y.neg
    ELSE Let(Aligned(x, y), LAMBDA al :
         Let(LCmp(al.a, al.b), LAMBDA c :
             IF x.neg /\ y.neg THEN c > 0
             ELSE IF x.neg THEN TRUE
             ELSE IF y.neg THEN FALSE
             ELSE c < 0))

\* x <= y
DLessEq(x, y) == x.k # "nan" /\ y.k # "nan" /\ (x = y \/ DLess(x, y))

(***************************************************************************)
(* Strings, and the conversions between strings and numbers that the       *)
(* source uses: Number-to-String of a non-negative integer, parseInt,      *)
(* parseFloat, Number.prototype.toFixed and the store into a Uint8Array.   *)
(***************************************************************************)
DecChars == <<"0", "1", "2", "3", "4", "5", "6", "7", "8", "9">>
HexLower == <<"a", "b", "c", "d", "e", "f">>
HexUpper == <<"A", "B", "C", "D", "E", "F">>
WhiteSpace == {" "}

IsDigit(c) == \E i \in 1..10 : DecChars[i] = c
DigitVal(c) == (CHOOSE i \in 1..10 : DecChars[i] = c) - 1
DigitChar(d) == DecChars[d + 1]

\* the value of c as a digit in the radix, or -1 when it is none
RadixVal(c, radix) ==
    LET v == IF IsDigit(c) THEN DigitVal(c)
             ELSE IF \E i \in 1..6 : HexLower[i] = c
                  THEN 9 + CHOOSE i \in 1..6 : HexLower[i] = c
             ELSE IF \E i \in 1..6 : HexUpper[i] = c
                  THEN 9 + CHOOSE i \in 1..6 : HexUpper[i] = c
             ELSE -1
    IN  IF v < radix THEN v ELSE -1

\* String(n) for an integer n >= 0
RECURSIVE NumberToString(_)
NumberToString(n) == IF n < 10 THEN <<DigitChar(n)>> ELSE Append(NumberToString(n \div 10), DigitChar(n % 10))

\* str.slice(0, n) and str.substr(start, len)
slice(str, n) == SubSeq(str, 1, Min(n, Len(str)))
substr(str, start, len) == SubSeq(str, start + 1, Min(start + len, Len(str)))

\* the number of leading characters of str, from position from on, that satisfy Ok
LeadingRun(str, from, Ok(_)) ==
    IF \A i \in from..Len(str) : Ok(str[i]) THEN Max(0, Len(str) - from + 1)
    ELSE (CHOOSE i \in from..Len(str) : ~Ok(str[i]) /\ \A j \in from..(i-1) : Ok(str[j])) - from

\* the natural written by the digits of str at positions from..to
RECURSIVE Horner(_, _, _, _)
Horner(str, from, to, radix) ==
    IF to < from THEN <<>>
    ELSE LMulAdd(Horner(str, from, to - 1, radix), radix, RadixVal(str[to], radix))

\* parseInt(string, radix): leading white space, a sign, for radix 16 a 0x prefix,
\* then the longest run of digits; NaN when that run is empty
parseInt(string, radix) ==
    LET IsSpace(c) == c \in WhiteSpace
        IsRadixDigit(c) == RadixVal(c, radix) >= 0
        p0  == 1 + LeadingRun(string, 1, IsSpace)
        sgn == p0 <= Len(string) /\ string[p0] \in {"+", "-"}
        neg == sgn /\ string[p0] = "-"
        p1  == IF sgn THEN p0 + 1 ELSE p0
        pfx == radix = 16 /\ p1 + 1 <= Len(string) /\ string[p1] = "0"
                 /\ string[p1 + 1] \in {"x", "X"}
        p2  == IF pfx THEN p1 + 2 ELSE p1
        n   == LeadingRun(string, p2, IsRadixDigit)
    IN  IF n = 0 THEN NaN ELSE Fin(neg, Horner(string, p2, p2 + n - 1, radix), 0)

\* the binary expansion of the decimal fraction dec (limbs in DecBase), a limb at
\* a time, until it ends or five limbs from the first non-zero one are out
RECURSIVE FracLimbs(_, _, _)
FracLimbs(dec, acc, nsig) ==
    IF \A i \in 1..Len(dec) : dec[i] = 0 THEN [m |-> acc, sticky |-> FALSE]
    ELSE IF nsig >= 5 THEN [m |-> acc, sticky |-> TRUE]
    ELSE Let(MulFrom(dec, Base, 0, 1, DecBase), LAMBDA t :
             FracLimbs(t.s, Append(acc, t.c), IF nsig > 0 \/ t.c # 0 THEN nsig + 1 ELSE 0))

\* the digits of str at from..to as limbs in DecBase, the last limb padded with zeros
DecLimbs(str, from, to) ==
    LET n == (to - from + 1 + DecLimbDigits - 1) \div DecLimbDigits
        D(i) == IF from + i <= to THEN DigitVal(str[from + i]) ELSE 0
    IN  [j \in 1..n |-> 1000 * D(4*(j-1)) + 100 * D(4*(j-1) + 1) + 10 * D(4*(j-1) + 2) + D(4*(j-1) + 3)]

\* What parseFloat(string) returns for a decimal literal: white space, a sign, digits, a point
\* and digits (no exponent part: neither "0." + digits nor toFixed writes one);
\* the nearest binary64 value, NaN when there is no digit
parseFloatOf(string) ==
    LET IsSpace(c) == c \in WhiteSpace
        p0  == 1 + LeadingRun(string, 1, IsSpace)
        sgn == p0 <= Len(string) /\ string[p0] \in {"+", "-"}
        neg == sgn /\ string[p0] = "-"
        p1  == IF sgn THEN p0 + 1 ELSE p0
    IN  Let(LeadingRun(string, p1, IsDigit), LAMBDA ni :
        Let(p1 + ni <= Len(string) /\ string[p1 + ni] = ".", LAMBDA dot :
        Let(IF dot THEN LeadingRun(string, p1 + ni + 1, IsDigit) ELSE 0, LAMBDA nf :
        Let(Horner(string, p1, p1 + ni - 1, 10), LAMBDA int :
        Let(FracLimbs(DecLimbs(string, p1 + ni + 1, p1 + ni + nf), <<>>, Len(int)), LAMBDA fr :
            IF ni + nf = 0 THEN NaN
            ELSE Round53(neg, LTrim(int \o fr.m), LimbBits * Len(fr.m), fr.sticky))))))

\* the first n decimal digits of the fraction f / 2^e, and what is left of it
RECURSIVE FracDigits(_, _, _)
FracDigits(f, e, n) ==
    IF n = 0 THEN [d |-> <<>>, f |-> f]
    ELSE Let(LMulAdd(f, 10, 0), LAMBDA f10 :
         Let(FracDigits(LLow(f10, e), e, n - 1), LAMBDA rest :
             [d |-> <<LToNat(LShr(f10, e))>> \o rest.d, f |-> rest.f]))

RECURSIVE NatDigits(_)
NatDigits(n) == IF n < 10 THEN <<n>> ELSE Append(NatDigits(n \div 10), n % 10)

\* What x.toFixed(fractionDigits) returns for |x| < 2^30 and 0 <= fractionDigits <= 100: the integer n with n / 10^f nearest
\* to x, the larger one on a tie, written with f digits after the point
toFixedOf(x, fractionDigits) ==
    IF x.k = "nan" THEN <<"N", "a", "N">>
    ELSE Let(FracDigits(LLow(x.m, x.e), x.e, fractionDigits), LAMBDA fd :
         Let(NatDigits(LToNat(LShr(x.m, x.e))) \o fd.d, LAMBDA all :
         Let(x.e > 0 /\ LBit(fd.f, x.e - 1) = 1, LAMBDA up :
         Let(AddFrom(all, [i \in 1..Len(all) |-> IF i = Len(all) THEN 1 ELSE 0], 1, 10), LAMBDA t :
         Let(IF ~up THEN all ELSE IF t.c = 0 THEN t.s ELSE <<t.c>> \o t.s, LAMBDA n :
         Let([i \in 1..Len(n) |-> DigitChar(n[i])], LAMBDA chr :
             LET ni == Len(n) - fractionDigits
             IN  (IF x.neg THEN <<"-">> ELSE <<>>) \o SubSeq(chr, 1, ni)
                   \o (IF fractionDigits > 0 THEN <<".">> \o SubSeq(chr, ni + 1, Len(n))
                       ELSE <<>>)))))))

\* the byte a Uint8Array element takes from a number: NaN and the infinities
\* give 0, an integer its value modulo 256
ToUint8(x) ==
    IF x.k # "fin" THEN 0
    ELSE LET r == LToNat(LLow(LShr(x.m, x.e), 8))
         IN  IF x.neg /\ r # 0 THEN 256 - r ELSE r

\* bytes.join("")
RECURSIVE join(_, _)
join(bytes, i) == IF i > Len(bytes) THEN <<>> ELSE NumberToString(bytes[i]) \o join(bytes, i + 1)

(***************************************************************************)
(* SHA-512.  The digest of a string is a fixed string of 128 lower-case    *)
(* hexadecimal characters.  Three digests are the real ones; for any other *)
(* string the digest is not computed but chosen, when the string is first  *)
(* hashed, from the digests the environment offers, and is the same ever   *)
(* after (digestOf records the choices).                                   *)
(***************************************************************************)
DigestLength == 128

\* sha512("ab0")
Sha512_ab0 ==
    <<"b", "c", "e", "3", "1", "8", "1", "9", "b", "c", "e", "f", "1", "c", "5", "7",
      "c", "c", "4", "f", "5", "8", "b", "3", "1", "f", "6", "0", "7", "3", "9", "7",
      "b", "0", "4", "0", "2", "9", "b", "9", "a", "9", "4", "2", "e", "8", "9", "9",
      "8", "0", "3", "b", "0", "4", "2", "c", "d", "5", "5", "e", "a", "c", "3", "e",
      "d", "9", "5", "b", "0", "c", "d", "c", "8", "4", "4", "e", "3", "7", "f", "6",
      "c", "5", "b", "8", "a", "7", "1", "3", "3", "1", "c", "2", "a", "6", "c", "b",
      "4", "2", "8", "d", "e", "8", "1", "5", "3", "2", "0", "b", "a", "b", "5", "6",
      "2", "1", "5", "d", "1", "9", "3", "c", "f", "c", "8", "c", "a", "b", "e", "5">>

\* sha512("ab17")
Sha512_ab17 ==
    <<"6", "1", "9", "d", "3", "a", "f", "5", "8", "3", "d", "9", "f", "a", "5", "9",
      "5", "8", "4", "b", "e", "9", "e", "c", "c", "6", "3", "8", "4", "e", "5", "8",
      "2", "7", "8", "8", "2", "7", "3", "a", "2", "9", "d", "8", "3", "0", "0", "5",
      "f", "b", "a", "6", "4", "f", "1", "1", "9", "c", "e", "7", "7", "5", "d", "8",
      "0", "6", "f", "1", "f", "6", "9", "2", "d", "f", "4", "e", "7", "6", "d", "6",
      "c", "9", "3", "b", "6", "f", "7", "2", "9", "9", "2", "0", "4", "4", "f", "c",
      "3", "a", "2", "1", "3", "0", "a", "a", "9", "e", "0", "e", "d", "b", "7", "c",
      "8", "2", "1", "3", "8", "f", "2", "2", "5", "c", "e", "f", "d", "e", "e", "f">>

\* sha512("ac778")
Sha512_ac778 ==
    <<"6", "3", "5", "a", "3", "b", "e", "b", "c", "8", "d", "7", "a", "6", "7", "0",
      "a", "2", "5", "2", "7", "7", "0", "c", "d", "5", "5", "c", "c", "c", "2", "6",
      "f", "4", "7", "6", "9", "e", "7", "0", "5", "5", "2", "3", "e", "1", "5", "0",
      "7", "c", "3", "7", "4", "b", "3", "6", "5", "d", "2", "f", "c", "e", "e", "d",
      "e", "5", "7", "0", "d", "8", "b", "2", "8", "7", "9", "f", "c", "6", "6", "1",
      "6", "b", "f", "a", "a", "1", "6", "c", "1", "1", "9", "3", "9", "7", "1", "5",
      "a", "4", "8", "9", "4", "c", "0", "3", "d", "e", "6", "4", "d", "9", "4", "f",
      "8", "5", "2", "1", "0", "a", "a", "4", "b", "c", "4", "8", "3", "1", "9", "e">>

\* sha512("ab10")
Sha512_ab10 ==
    <<"e", "3", "7", "5", "c", "7", "5", "8", "1", "4", "7", "d", "1", "2", "0", "6", "c", "0", "6", "5", "7", "4", "d", "3", "8", "5", "3", "5", "7", "7", "5", "3", "c", "c", "b", "1", "0", "3", "6", "d", "b", "5", "2", "1", "2", "5", "d", "9", "c", "0", "0", "3", "3", "5", "3", "f", "4", "a", "f", "1", "e", "7", "f", "1", "8", "3", "4", "8", "2", "2", "8", "3", "6", "b", "9", "a", "6", "f", "8", "c", "d", "9", "b", "9", "6", "c", "f", "8", "d", "9", "a", "8", "e", "1", "8", "4", "b", "3", "d", "b", "3", "c", "1", "c", "9", "5", "2", "a", "0", "5", "7", "f", "6", "a", "1", "3", "8", "7", "5", "e", "f", "e", "e", "1", "e", "1", "d", "1">>

KnownDigests ==
    (<<"a", "b", "0">> :> Sha512_ab0) @@ (<<"a", "b", "1", "7">> :> Sha512_ab17)
      @@ (<<"a", "b", "1", "0">> :> Sha512_ab10) @@ (<<"a", "c", "7", "7", "8">> :> Sha512_ac778)

\* the digest that starts with head and goes on with the byte fill
Digest(head, fill) ==
    [i \in 1..DigestLength |-> IF i <= Len(head) THEN head[i] ELSE fill[2 - (i % 2)]]

DigestZero == Digest(<<>>, <<"0", "0">>)              \* bytes 0, 0, 0, ...
Digest99   == Digest(<<>>, <<"6", "3">>)              \* bytes 99, 99, 99, ...
DigestFF   == Digest(<<>>, <<"f", "f">>)              \* bytes 255, 255, 255, ...
DigestHalf == Digest(<<"0", "5">>, <<"0", "0">>)      \* bytes 5, 0, 0, ...

AllDigests ==
    {DigestZero, Digest99, DigestFF, DigestHalf} \cup {KnownDigests[x] : x \in DOMAIN KnownDigests}

(***************************************************************************)
(* The module's functions.  H is the digest function: sha512 reads it.     *)
(* The conversions are evaluated once for the arguments that the digests   *)
(* above lead to (the tables), and looked up afterwards.                   *)
(***************************************************************************)
\* a concatenation that keeps the three parts apart
combineDelimited(client, server, nonce) ==
    client \o <<":">> \o server \o <<":">> \o NumberToString(nonce)

combine(client, server, nonce) == client \o server \o NumberToString(nonce)

sha512(H, string) == H[string]

\* new Uint8Array(hex.length / 2) has floor(hex.length / 2) elements; the store
\* past the end that an odd length leads to is dropped
hexToBytesOf(hex) ==
    LET byteCount == Len(hex) \div 2
    IN  [i \in 1..byteCount |-> ToUint8(parseInt(substr(hex, (i - 1) * 2, 2), 16))]

HexTable == [h \in {slice(d, 64) : d \in AllDigests} |-> hexToBytesOf(h)] @@ <<>>

hexToBytes(hex) == IF hex \in DOMAIN HexTable THEN HexTable[hex] ELSE hexToBytesOf(hex)

byteGenerator(H, clientseed, serverseed, nonce) ==
    LET preHash == combine(clientseed, serverseed, nonce)
        hash    == sha512(H, preHash)
    IN  hexToBytes(slice(hash, 64))

\* a range that leaves max out
integerOfExclusive(head, min, max) ==
    LET range == DSub(max, min)
    IN  DAdd(DRem(parseInt(head, 16), range), min)

\* parseInt(hash.slice(0, 8), 16) % range + min
integerOf(head, min, max) ==
    LET range == DAdd(DSub(max, min), FromInt(1))
    IN  DAdd(DRem(parseInt(head, 16), range), min)

\* the pairs (min, max) that generateInteger is called with
MaxBound == 2

MaxSafeInteger == Fin(FALSE, <<255, 32767, 32767, 32767>>, 0)      \* 2^53 - 1
MaxInt32       == Fin(FALSE, <<1, 32767, 32767>>, 0)               \* 2^31 - 1
TwoTo53        == Fin(FALSE, <<256, 0, 0, 0>>, 0)                  \* 2^53
TwoTo53Plus4   == Fin(FALSE, <<256, 0, 0, 4>>, 0)                  \* 2^53 + 4

Bounds ==
    {<<FromInt(a), FromInt(b)>> : a, b \in (0 - MaxBound)..MaxBound}
      \cup { <<FromInt(1), FromInt(6)>>, <<FromInt(5), FromInt(1)>>, <<FromInt(5), FromInt(4)>>,
             <<DNeg(MaxInt32), MaxInt32>>, <<DNeg(MaxSafeInteger), MaxSafeInteger>>,
             <<TwoTo53, TwoTo53Plus4>> }

IntegerTable ==
    [hb \in {slice(d, 8) : d \in AllDigests} \X Bounds |-> integerOf(hb[1], hb[2][1], hb[2][2])] @@ <<>>

generateInteger(H, clientSeed, serverSeed, nonce, min, max) ==
    LET preHash == combine(clientSeed, serverSeed, nonce)
        hash    == sha512(H, preHash)
    IN  Let(slice(hash, 8), LAMBDA head :
            IF <<head, <<min, max>>>> \in DOMAIN IntegerTable
            THEN IntegerTable[<<head, <<min, max>>>>]
            ELSE integerOf(head, min, max))

\* the part of generateFloats after byteGenerator
floatOf(bytes, precision) ==
    LET float == parseFloatOf(<<"0", ".">> \o join(bytes, 1))
    IN  parseFloatOf(toFixedOf(float, precision))

FloatTable ==
    [bp \in {HexTable[h] : h \in DOMAIN HexTable} \X {0, 1, 2, 10} |-> floatOf(bp[1], bp[2])] @@ <<>>

\* toFixed throws a RangeError unless 0 <= precision <= 100
generateFloatsThrows(precision) == precision < 0 \/ precision > 100

generateFloats(H, clientSeed, serverSeed, nonce, precision) ==
    Let(byteGenerator(H, clientSeed, serverSeed, nonce), LAMBDA bytes :
        IF <<bytes, precision>> \in DOMAIN FloatTable THEN FloatTable[<<bytes, precision>>]
        ELSE floatOf(bytes, precision))

Half == Fin(FALSE, <<1>>, 1)

\* a comparison that leaves 0.5 out
generateBoolStrict(H, clientSeed, serverSeed, nonce) ==
    IF DLess(generateFloats(H, clientSeed, serverSeed, nonce, 10), Half) THEN TRUE ELSE FALSE

\* `return a, b <= 0.5 ? true : false`: the comma operator evaluates a and drops it
generateBool(H, clientSeed, serverSeed, nonce) ==
    IF DLessEq(generateFloats(H, clientSeed, serverSeed, nonce, 10), Half) THEN TRUE ELSE FALSE

\* totalProbability after the first n objects, added left to right from 0
RECURSIVE totalProbability(_, _)
totalProbability(objects, n) ==
    IF n = 0 THEN FromInt(0)
    ELSE DAdd(totalProbability(objects, n - 1), objects[n].probability)

normalizedProbabilities(objects) ==
    Let(totalProbability(objects, Len(objects)), LAMBDA total :
        [i \in 1..Len(objects) |-> DDiv(objects[i].probability, total)])

\* the running sum `index` after i iterations of the selection loop
RECURSIVE indexAfter(_, _)
indexAfter(normalized, i) ==
    IF i = 0 THEN FromInt(0) ELSE DAdd(indexAfter(normalized, i - 1), normalized[i])

\* the values `index` takes, one for each iteration
indexValuesOf(objects) ==
    Let(normalizedProbabilities(objects), LAMBDA normalized :
        [i \in 1..Len(objects) |-> indexAfter(normalized, i)])

Null == [id |-> "null"]

(***************************************************************************)
(* The option lists handed to selectRandomObject: an option is a record    *)
(* with a probability, and id tells the options of a list apart.           *)
(***************************************************************************)
MaxWeight  == 2
MaxObjects == 2

Objects(weights) == [i \in 1..Len(weights) |-> [id |-> i, probability |-> weights[i]]]

SmallWeights ==
    UNION {[1..n -> {FromInt(w) : w \in 0..MaxWeight}] : n \in 1..MaxObjects}

\* weights that sum to 10^10, cut at the draw of ("a", "b", 17)
CutWeights ==
    << parseFloatOf(<<"4", "5", "8", "3", "8", "7", "1", "8", "6", "3">>),
       parseFloatOf(<<"5", "1", "3", "1", "8", "8", "6", "3", "8", "2">>),
       parseFloatOf(<<"2", "8", "4", "2", "4", "1", "7", "5", "5">>) >>

\* lists the preconditions of the selection exclude
BadWeights ==
    {<<>>, <<FromInt(-1), FromInt(2)>>, <<FromInt(1), FromInt(-1)>>, <<FromInt(2), FromInt(-1)>>}

SelectLists == {Objects(w) : w \in SmallWeights \cup BadWeights \cup {CutWeights}}

IndexTable == [objects \in SelectLists |-> indexValuesOf(objects)] @@ <<>>

indexValues(objects) ==
    IF objects \in DOMAIN IndexTable THEN IndexTable[objects] ELSE indexValuesOf(objects)

\* a loop that adds the probabilities as they are given
selectUnnormalized(H, clientSeed, serverSeed, nonce, objects) ==
    Let(generateFloats(H, clientSeed, serverSeed, nonce, 10), LAMBDA randomFloat :
    Let([i \in 1..Len(objects) |-> totalProbability(objects, i)], LAMBDA index :
    Let({i \in 1..Len(objects) : DLess(randomFloat, index[i])}, LAMBDA hits :
        IF hits = {} THEN Null
        ELSE objects[CHOOSE i \in hits : \A j \in hits : i <= j])))

\* a loop that returns at randomFloat <= index
selectInclusive(H, clientSeed, serverSeed, nonce, objects) ==
    Let(generateFloats(H, clientSeed, serverSeed, nonce, 10), LAMBDA randomFloat :
    Let(indexValues(objects), LAMBDA index :
    Let({i \in 1..Len(objects) : DLessEq(randomFloat, index[i])}, LAMBDA hits :
        IF hits = {} THEN Null
        ELSE objects[CHOOSE i \in hits : \A j \in hits : i <= j])))

\* the loop returns at the first i with randomFloat < index, and null after the loop
selectRandomObject(H, clientSeed, serverSeed, nonce, objects) ==
    Let(generateFloats(H, clientSeed, serverSeed, nonce, 10), LAMBDA randomFloat :
    Let(indexValues(objects), LAMBDA index :
    Let({i \in 1..Len(objects) : DLess(randomFloat, index[i])}, LAMBDA hits :
        IF hits = {} THEN Null
        ELSE objects[CHOOSE i \in hits : \A j \in hits : i <= j])))

(***************************************************************************)
(* The library as a state machine.  The library keeps no state: what       *)
(* persists between calls is only the world's SHA-512, digestOf, the       *)
(* digests of the strings hashed so far.  ret is the last call with what   *)
(* it returned, pinned an earlier call kept for comparison, and since the  *)
(* number of calls made after pinned was taken (counted up to SinceCap).   *)
(***************************************************************************)
VARIABLES digestOf, ret, pinned, since

vars == <<digestOf, ret, pinned, since>>

SinceCap == 2

None == [op |-> "none", triple |-> <<>>, extra |-> <<>>, result |-> <<>>, error |-> "none"]

\* a digest computed afresh, whatever the string's digest was before
FreshHashes(string, pool) ==
    {[s \in DOMAIN digestOf \cup {string} |-> IF s = string THEN d ELSE digestOf[s]] : d \in pool}

\* the digest functions a call that hashes string may see: pool is what SHA-512
\* may turn out to be on a string that has no digest yet
Hashes(string, pool) ==
    IF string \in DOMAIN digestOf THEN {digestOf}
    ELSE IF string \in DOMAIN KnownDigests THEN {digestOf @@ (string :> KnownDigests[string])}
    ELSE {digestOf @@ (string :> d) : d \in pool}

Returned(op, triple, extra, result) ==
    [op |-> op, triple |-> triple, extra |-> extra, result |-> result, error |-> "none"]

Thrown(op, triple, extra, error) ==
    [op |-> op, triple |-> triple, extra |-> extra, result |-> <<>>, error |-> error]

Counted == since' = IF pinned = None THEN 0 ELSE Min(since + 1, SinceCap)

CallGenerateInteger(t, min, max, pool) ==
    \E H \in Hashes(combine(t[1], t[2], t[3]), pool) :
        /\ digestOf' = H
        /\ ret' = Returned("generateInteger", t, <<min, max>>,
                           generateInteger(H, t[1], t[2], t[3], min, max))
        /\ Counted
        /\ UNCHANGED pinned

CallGenerateFloats(t, precision, pool) ==
    \E H \in Hashes(combine(t[1], t[2], t[3]), pool) :
        /\ digestOf' = H
        /\ ret' = IF generateFloatsThrows(precision)
                  THEN Thrown("generateFloats", t, precision, "RangeError")
                  ELSE Returned("generateFloats", t, precision,
                                generateFloats(H, t[1], t[2], t[3], precision))
        /\ Counted
        /\ UNCHANGED pinned

CallGenerateBool(t, pool) ==
    \E H \in Hashes(combine(t[1], t[2], t[3]), pool) :
        /\ digestOf' = H
        /\ ret' = Returned("generateBool", t, <<>>, generateBool(H, t[1], t[2], t[3]))
        /\ Counted
        /\ UNCHANGED pinned

CallSelectRandomObject(t, objects, pool) ==
    \E H \in Hashes(combine(t[1], t[2], t[3]), pool) :
        /\ digestOf' = H
        /\ ret' = Returned("selectRandomObject", t, objects,
                           selectRandomObject(H, t[1], t[2], t[3], objects))
        /\ Counted
        /\ UNCHANGED pinned

ServerSeedLength == 512

\* crypto.randomBytes(256).toString('hex'): any 512 hexadecimal characters
ServerSeeds == {[i \in 1..ServerSeedLength |-> c] : c \in {"0", "f"}}

CallGenerateServerSeed ==
    \E seed \in ServerSeeds :
        /\ ret' = Returned("generateServerSeed", <<>>, <<>>, seed)
        /\ Counted
        /\ UNCHANGED <<digestOf, pinned>>

CallHexToBytes(hex) ==
    /\ ret' = Returned("hexToBytes", <<>>, hex, hexToBytes(hex))
    /\ Counted
    /\ UNCHANGED <<digestOf, pinned>>

\* the observer keeps the last call, once
Pin ==
    /\ pinned = None
    /\ ret # None
    /\ pinned' = ret
    /\ since' = 0
    /\ UNCHANGED <<digestOf, ret>>

Init ==
    /\ digestOf = <<>>
    /\ ret = None
    /\ pinned = None
    /\ since = 0

(***************************************************************************)
(* The library under a caller that mixes all its generators, on triples    *)
(* of which some have the same concatenation.                              *)
(***************************************************************************)
Triples ==
    { <<(<<"a", "b">>), (<<"c">>), 1>>,  <<(<<"a">>), (<<"b", "c">>), 1>>,
      <<(<<"a">>), (<<"b", "1">>), 0>>,  <<(<<"a">>), (<<"b">>), 10>>,
      <<(<<"a">>), (<<"b">>), 0>> }

Pool == {DigestHalf, Digest99}

Next ==
    \/ \E t \in Triples : CallGenerateInteger(t, FromInt(1), FromInt(6), Pool)
    \/ \E t \in Triples : \E precision \in {2, 10} : CallGenerateFloats(t, precision, Pool)
    \/ \E t \in Triples : CallGenerateBool(t, Pool)
    \/ \E t \in Triples : CallSelectRandomObject(t, Objects(<<FromInt(1), FromInt(2)>>), Pool)
    \/ CallGenerateServerSeed
    \/ Pin

Spec == Init /\ [][Next]_vars

(***************************************************************************)
(* generateInteger alone, over small bounds in either order and a few      *)
(* wide ones.                                                              *)
(***************************************************************************)
IntegerTriples == { <<(<<"a">>), (<<"b">>), 0>>, <<(<<"a">>), (<<"b", "c">>), 1>> }

IntegerPool == {DigestZero, Digest99, DigestFF}

NextInteger ==
    \E t \in IntegerTriples : \E b \in Bounds : CallGenerateInteger(t, b[1], b[2], IntegerPool)

SpecInteger == Init /\ [][NextInteger]_vars

(***************************************************************************)
(* generateFloats alone.                                                   *)
(***************************************************************************)
Precisions == {-1, 0, 1, 2, 10}

FloatTriples ==
    { <<(<<"a">>), (<<"b">>), 0>>, <<(<<"a">>), (<<"b">>), 17>>, <<(<<"a">>), (<<"c">>), 778>>,
      <<(<<"a">>), (<<"b", "c">>), 1>> }

FloatPool == {DigestZero, DigestHalf}

NextFloats ==
    \/ \E t \in FloatTriples : \E precision \in Precisions : CallGenerateFloats(t, precision, FloatPool)
    \/ Pin

SpecFloats == Init /\ [][NextFloats]_vars

(***************************************************************************)
(* generateBool next to generateFloats at precision 10.                    *)
(***************************************************************************)
BoolTriples ==
    { <<(<<"a">>), (<<"b">>), 0>>, <<(<<"a">>), (<<"b">>), 17>>, <<(<<"a">>), (<<"b", "c">>), 1>> }

BoolPool == {DigestZero, DigestHalf, Digest99, DigestFF}

NextBool ==
    \/ \E t \in BoolTriples : CallGenerateFloats(t, 10, BoolPool)
    \/ \E t \in BoolTriples : CallGenerateBool(t, BoolPool)
    \/ Pin

SpecBool == Init /\ [][NextBool]_vars

(***************************************************************************)
(* selectRandomObject over the option lists.                               *)
(***************************************************************************)
SelectTriples ==
    { <<(<<"a">>), (<<"b">>), 17>>, <<(<<"a">>), (<<"c">>), 778>>, <<(<<"a">>), (<<"b", "c">>), 1>> }

SelectPool == {DigestZero, DigestHalf, Digest99}

NextSelect ==
    \E t \in SelectTriples : \E objects \in SelectLists : CallSelectRandomObject(t, objects, SelectPool)

SpecSelect == Init /\ [][NextSelect]_vars

(***************************************************************************)
(* hexToBytes alone, on strings of hexadecimal digits in either case, a    *)
(* letter that is no digit, and a blank.                                   *)
(***************************************************************************)
MaxHexLen == 3

HexStrings == UNION {[1..n -> {"0", "a", "F", "g", " "}] : n \in 0..MaxHexLen}

NextHex == \E hex \in HexStrings : CallHexToBytes(hex)

SpecHex == Init /\ [][NextHex]_vars

(***************************************************************************)
(* Properties.                                                             *)
(***************************************************************************)
Generators == {"generateInteger", "generateFloats", "generateBool", "selectRandomObject"}

\* ret repeats the pinned call: same generator, same extra arguments
SameCall == pinned.op \in Generators /\ ret.op = pinned.op /\ ret.extra = pinned.extra

SameOutcome == ret.result = pinned.result /\ ret.error = pinned.error

Concatenated(t) == t[1] \o t[2] \o NumberToString(t[3])

\* C9: two calls of a generator on triples with the same concatenation
\* clientSeed + serverSeed + decimal(nonce), and the same extra arguments,
\* return the same result.
C9_ConcatenationOnly ==
    (SameCall /\ Concatenated(ret.triple) = Concatenated(pinned.triple)) => SameOutcome

\* a later call on a different triple with the same concatenation
C9_Collision ==
    /\ SameCall
    /\ ret.triple # pinned.triple
    /\ Concatenated(ret.triple) = Concatenated(pinned.triple)
    /\ since >= 1

(***************************************************************************)
(* generateInteger.  The expected result is computed on integers: a signed *)
(* integer is a sign and a magnitude.                                      *)
(***************************************************************************)
IsInteger(x) == x.k = "fin" /\ x.e = 0

IntAdd(x, y) ==
    IF x.neg = y.neg THEN [neg |-> x.neg, m |-> LAdd(x.m, y.m)]
    ELSE IF LCmp(x.m, y.m) >= 0 THEN [neg |-> x.neg, m |-> LSub(x.m, y.m)]
    ELSE [neg |-> y.neg, m |-> LSub(y.m, x.m)]

IntNeg(x) == [neg |-> ~x.neg, m |-> x.m]

IntOf(x) == [neg |-> x.neg, m |-> x.m]

SameInteger(x, i) == IsInteger(x) /\ x.m = i.m /\ (x.neg = i.neg \/ i.m = <<>>)

\* the first n characters of hash read as an unsigned hexadecimal number
RECURSIVE Unsigned(_, _)
Unsigned(hash, n) ==
    IF n = 0 THEN <<>> ELSE LMulAdd(Unsigned(hash, n - 1), 16, RadixVal(hash[n], 16))

HashOf(t) == digestOf[Concatenated(t)]

\* (first 8 hex characters as an unsigned integer) mod (max - min + 1) + min
ExpectedInteger(t, min, max) ==
    LET range == IntAdd(IntAdd(IntOf(max), IntNeg(IntOf(min))), [neg |-> FALSE, m |-> <<1>>])
    IN  IntAdd([neg |-> FALSE, m |-> LMod(Unsigned(HashOf(t), 8), range.m)], IntOf(min))

\* the result of the last call is an integer r, min <= r <= max, equal to (the
\* first 8 hex characters of the digest as an unsigned 32-bit integer)
\* mod (max - min + 1) + min
InRangeAsComputed ==
    /\ ret.error = "none"
    /\ IsInteger(ret.result)
    /\ DLessEq(ret.extra[1], ret.result)
    /\ DLessEq(ret.result, ret.extra[2])
    /\ SameInteger(ret.result, ExpectedInteger(ret.triple, ret.extra[1], ret.extra[2]))

IsSafeInteger(x) == IsInteger(x) /\ LCmp(x.m, MaxSafeInteger.m) <= 0

C6_InvalidRange ==
    (ret.op = "generateInteger" /\ DLess(ret.extra[2], ret.extra[1])) =>
        ret.error = "InvalidRangeError"

(***************************************************************************)
(* generateFloats and generateBool.                                        *)
(***************************************************************************)
\* C3: generateFloats with precision >= 1 returns v with 0 <= v < 1, and with
\* precision 0 it returns 0 or 1.
C3_UnitInterval ==
    (ret.op = "generateFloats" /\ ret.extra >= 0) =>
        /\ ret.error = "none"
        /\ ret.extra >= 1 => DLessEq(FromInt(0), ret.result) /\ DLess(ret.result, FromInt(1))
        /\ ret.extra = 0 => ret.result \in {FromInt(0), FromInt(1)}

Weight(objects, i) == objects[i].probability

\* the preconditions of the selection: a non-empty list, no negative weight,
\* a positive sum
ValidOptions(objects) ==
    /\ objects # <<>>
    /\ \A i \in 1..Len(objects) : DLessEq(FromInt(0), Weight(objects, i))
    /\ \E i \in 1..Len(objects) : DLess(FromInt(0), Weight(objects, i))

\* the draw of the last call to selectRandomObject
Draw == generateFloats(digestOf, ret.triple[1], ret.triple[2], ret.triple[3], 10)

\* the result is the option at the smallest index that Below holds of, and
\* null when it holds of none
SelectsFirst(objects, result, Below(_)) ==
    /\ result = Null <=> \A i \in 1..Len(objects) : ~Below(i)
    /\ result # Null =>
         \E i \in 1..Len(objects) :
            /\ result = objects[i]
            /\ Below(i)
            /\ \A j \in 1..(i - 1) : ~Below(j)

\* w_1 + ... + w_i exactly, for weights that are natural numbers
RECURSIVE ExactSum(_, _)
ExactSum(objects, i) ==
    IF i = 0 THEN <<>> ELSE LAdd(ExactSum(objects, i - 1), Weight(objects, i).m)

\* d < (w_1 + ... + w_i) / total in exact arithmetic, d being m / 2^e
ExactlyBelow(d, objects, i) ==
    LCmp(LMul(d.m, ExactSum(objects, Len(objects))), LShl(ExactSum(objects, i), d.e)) < 0

\* C5 as stated: the result is the option at the smallest index i such that
\* the draw d is strictly less than (w_0 + ... + w_i) / total, and null only
\* when no index satisfies the inequality.
C5_ExactCumulative ==
    (ret.op = "selectRandomObject" /\ ValidOptions(ret.extra)) =>
        LET Below(i) == ExactlyBelow(Draw, ret.extra, i)
        IN  SelectsFirst(ret.extra, ret.result, Below)

\* the binary64 running sum: the quotients w_j / total, each rounded, added one
\* at a time from 0 with a rounding after each addition
RECURSIVE RunningSum(_, _, _)
RunningSum(objects, total, i) ==
    IF i = 0 THEN FromInt(0)
    ELSE DAdd(RunningSum(objects, total, i - 1), DDiv(Weight(objects, i), total))

RECURSIVE Total(_, _)
Total(objects, i) ==
    IF i = 0 THEN FromInt(0) ELSE DAdd(Total(objects, i - 1), Weight(objects, i))

\* C5 as amended: the result is the option at the smallest index i such that
\* the draw d is strictly less than the binary64 running sum of the rounded
\* quotients w_0 / total, ..., w_i / total, and null only when no index
\* satisfies the inequality.
C5_RunningSum ==
    (ret.op = "selectRandomObject" /\ ValidOptions(ret.extra)) =>
        LET total    == Total(ret.extra, Len(ret.extra))
            Below(i) == DLess(Draw, RunningSum(ret.extra, total, i))
        IN  ret.error = "none" /\ SelectsFirst(ret.extra, ret.result, Below)

\* the draw lies between the exact bound of the second option and its running
\* sum, and the second option was returned
C5_BetweenBounds ==
    /\ ret.op = "selectRandomObject" /\ ValidOptions(ret.extra)
    /\ Len(ret.extra) = 3
    /\ ret.result = ret.extra[2]
    /\ ~ExactlyBelow(Draw, ret.extra, 2)

\* C7: selectRandomObject fails with EmptyOptionsError on an empty list, and
\* with InvalidWeightError on a negative weight or on weights that sum to 0.
C7_RejectsBadOptions ==
    (ret.op = "selectRandomObject" /\ ~ValidOptions(ret.extra)) =>
        ret.error = IF ret.extra = <<>> THEN "EmptyOptionsError" ELSE "InvalidWeightError"

\* C10: with no negative weight and a positive total, a result that is not
\* null is an option of the list with a strictly positive weight.
C10_NeverZeroWeight ==
    (ret.op = "selectRandomObject" /\ ValidOptions(ret.extra) /\ ret.result # Null) =>
        \E i \in 1..Len(ret.extra) :
            ret.result = ret.extra[i] /\ DLess(FromInt(0), Weight(ret.extra, i))

\* the draw was 0, the first option has weight 0, and the second was returned
C10_ZeroWeightFirst ==
    /\ ret.op = "selectRandomObject" /\ ValidOptions(ret.extra)
    /\ Draw = FromInt(0)
    /\ Weight(ret.extra, 1) = FromInt(0)
    /\ Len(ret.extra) >= 2 /\ ret.result = ret.extra[2]

(***************************************************************************)
(* hexToBytes.                                                             *)
(***************************************************************************)
IsHexDigit(c) == IsDigit(c) \/ \E i \in 1..6 : HexLower[i] = c \/ HexUpper[i] = c

\* every 2-character group is there and is two hexadecimal digits
WellFormed(hex) == Len(hex) % 2 = 0 /\ \A i \in 1..Len(hex) : IsHexDigit(hex[i])

\* C8: hexToBytes fails with InvalidHexError when a 2-character group is not
\* valid base-16 or is incomplete, and never puts a zero byte in its place;
\* for well-formed input it returns len(hex) / 2 bytes, byte i being the
\* base-16 value of hex[2i..2i+2].
C8_ExplicitAboutMalformed ==
    ret.op = "hexToBytes" =>
        IF WellFormed(ret.extra)
        THEN /\ ret.error = "none"
             /\ Len(ret.result) = Len(ret.extra) \div 2
             /\ \A i \in 1..Len(ret.result) :
                   ret.result[i] = 16 * RadixVal(ret.extra[2 * i - 1], 16) + RadixVal(ret.extra[2 * i], 16)
        ELSE ret.error = "InvalidHexError"

====
